---- MODULE Spec2Model ----
(***************************************************************************)
(* Insurance lead-generation chatbot (main.py): the SQLite store with its *)
(* three tables, the conversation step and the chat endpoint, the lead    *)
(* form, the Messenger webhook, the admin endpoints and the affiliate     *)
(* redirect.  Text is modelled by TLA+ strings, on which TLC evaluates    *)
(* Len, \o and SubSeq.                                                    *)
(***************************************************************************)
EXTENDS Integers, Sequences, FiniteSets, TLC

VARIABLES
    now,            \* the store's CURRENT_TIMESTAMP, in whole seconds
    chat_history,   \* table chat_history, rows in rowid order
    leads,          \* table leads, a set of rows
    lead_seq,       \* sqlite_sequence entry of leads (AUTOINCREMENT)
    admin_logs,     \* table admin_logs, rows in rowid order
    env,            \* configuration read from the environment at import
    chat,           \* the running POST /api/chat invocations
    query,          \* last direct get_chat_history call and its result
    webhook,        \* the running POST /webhook invocation
    resp            \* last response of a handler that runs in one step

vars == <<now, chat_history, leads, lead_seq, admin_logs, env, chat, query,
          webhook, resp>>

-----------------------------------------------------------------------------
(* Bounds *)

MaxTime == 1        \* the clock takes the values 0..MaxTime
MaxRows == 4        \* rows of chat_history written by the chat endpoint
MaxHistRows == 3    \* rows of chat_history written by direct store calls
MaxLeads == 2       \* lead rows ever inserted
MaxLogs == 1        \* rows of admin_logs
MaxEvents == 2      \* messaging events in one webhook payload

None == "<None>"    \* Python's None, distinct from every text used below

-----------------------------------------------------------------------------
(* Text helpers: str.lower() and the `in` substring test *)

UpperLetters == "ABCDEFGHIJKLMNOPQRSTUVWXYZ"
LowerLetters == "abcdefghijklmnopqrstuvwxyz"

CharAt(s, i) == SubSeq(s, i, i)

LowerChar(c) ==
    IF \E i \in 1..26 : CharAt(UpperLetters, i) = c
    THEN CharAt(LowerLetters, CHOOSE i \in 1..26 : CharAt(UpperLetters, i) = c)
    ELSE c

RECURSIVE Lower(_)
Lower(s) ==
    IF Len(s) = 0 THEN ""
    ELSE LowerChar(CharAt(s, 1)) \o Lower(SubSeq(s, 2, Len(s)))

\* needle in hay
Contains(hay, needle) ==
    \E i \in 1..(Len(hay) - Len(needle) + 1) :
        SubSeq(hay, i, i + Len(needle) - 1) = needle

Min(a, b) == IF a < b THEN a ELSE b

RECURSIVE Reverse(_)
Reverse(s) ==
    IF s = <<>> THEN <<>> ELSE Append(Reverse(Tail(s)), Head(s))

-----------------------------------------------------------------------------
(* Store: chat_history *)

\* INSERT INTO chat_history (session_id, role, message); id and timestamp
\* take their column defaults
SaveChatMessage(hist, session_id, role, message, ts) ==
    Append(hist, [id |-> Len(hist) + 1, session_id |-> session_id,
                  timestamp |-> ts, role |-> role, message |-> message])

RowsOf(hist, session_id) ==
    {hist[i] : i \in {j \in 1..Len(hist) : hist[j].session_id = session_id}}

\* ORDER BY timestamp DESC LIMIT n over a set of rows: every sequence of n
\* rows in non-increasing timestamp order; rows with equal timestamps may
\* come in any order, which SQL leaves to the engine
RECURSIVE OrderByTimestampDesc(_, _)
OrderByTimestampDesc(rows, n) ==
    IF n = 0 \/ rows = {} THEN {<<>>}
    ELSE UNION {
        {<<r>> \o rest : rest \in OrderByTimestampDesc(rows \ {r}, n - 1)} :
            r \in {q \in rows : \A o \in rows : o.timestamp <= q.timestamp}}

RowDict(row) ==
    [role |-> row.role, message |-> row.message, timestamp |-> row.timestamp]

\* the lists get_chat_history(session_id, limit) can return: rows[::-1]
\* turned into dicts
GetChatHistory(hist, session_id, limit) ==
    {[i \in 1..Len(rows) |-> RowDict(Reverse(rows)[i])] :
        rows \in OrderByTimestampDesc(RowsOf(hist, session_id), limit)}

-----------------------------------------------------------------------------
(* Conversation step *)

SystemPrompt == "You are a professional home insurance assistant."
Apology == "I apologize, but I'm having trouble processing your request. Please try again or use our quick quote form."
QuoteSuffix == "\n\n**Need actual quotes?** Provide your email for quotes from our partner carriers."
HistoryLimit == 6
ContextLimit == 6

\* messages[-6:]
LastN(s, n) == SubSeq(s, Len(s) - Min(n, Len(s)) + 1, Len(s))

\* formatted_messages of get_ai_response
FormatMessages(messages) ==
    <<[role |-> "system", content |-> SystemPrompt]>> \o
    [i \in 1..Len(LastN(messages, ContextLimit)) |->
        [role |-> IF LastN(messages, ContextLimit)[i].role = "user"
                  THEN "user" ELSE "assistant",
         content |-> LastN(messages, ContextLimit)[i].message]]

\* what the completion call does: it returns a text, or it raises (timeout,
\* error response, reply without choices)
Replies == {"Sure."}
ProviderOutcomes ==
    {[ok |-> TRUE, content |-> r] : r \in Replies} \cup
    {[ok |-> FALSE, content |-> None]}

GetAiResponse_NoFallback(outcome) ==
    outcome.content

\* the try/except of get_ai_response
GetAiResponse(outcome) ==
    IF outcome.ok THEN outcome.content ELSE Apology

quote_keywords == <<"quote", "price", "how much", "cost", "rate">>

IsQuoteRequest_CaseSensitive(message) ==
    \E k \in 1..Len(quote_keywords) : Contains(message, quote_keywords[k])

\* any(keyword in message.lower() for keyword in quote_keywords)
IsQuoteRequest(message) ==
    \E k \in 1..Len(quote_keywords) : Contains(Lower(message), quote_keywords[k])

-----------------------------------------------------------------------------
(* POST /api/chat *)

Sessions == {"s1", "s2"}
Messages == {"how much does it cost", "hello", "My RATE?", "a pirate", "pr ice"}
ProcIds == {1, 2}           \* workers; Spec runs one, SpecConcurrent both
ConcurrentMessages == {"how much does it cost", "hello"}

IdleChat ==
    [pc |-> "idle", session_id |-> None, message |-> None, history |-> <<>>,
     outcome |-> None, ai_response |-> None, response |-> None,
     status |-> 0, writes |-> <<>>]

\* rows the invocations in flight will still write
PendingWrites ==
    Cardinality({p \in ProcIds : chat[p].pc \in {"history", "ai", "save_ai"}})

ChatUnchanged == UNCHANGED <<leads, lead_seq, admin_logs, env, query, webhook, resp>>

\* the clock moves on
Tick ==
    /\ now < MaxTime
    /\ now' = now + 1
    /\ UNCHANGED <<chat_history, leads, lead_seq, admin_logs, env, chat,
                   query, webhook, resp>>

\* request arrives; save_chat_message(session_id, "user", message)
ChatSaveUser(p, s, m) ==
    /\ chat[p].pc = "idle"
    /\ Len(chat_history) + PendingWrites + 2 <= MaxRows
    /\ chat_history' = SaveChatMessage(chat_history, s, "user", m, now)
    /\ chat' = [chat EXCEPT ![p] =
          [IdleChat EXCEPT !.pc = "history", !.session_id = s,
              !.message = m, !.writes = <<Len(chat_history) + 1>>]]
    /\ UNCHANGED now
    /\ ChatUnchanged

\* history = get_chat_history(session_id, limit=6)
ChatGetHistory(p) ==
    /\ chat[p].pc = "history"
    /\ \E h \in GetChatHistory(chat_history, chat[p].session_id, HistoryLimit) :
        chat' = [chat EXCEPT ![p].pc = "ai", ![p].history = h]
    /\ UNCHANGED <<now, chat_history>>
    /\ ChatUnchanged

\* ai_response = await get_ai_response(history)
ChatAiResponse(p) ==
    /\ chat[p].pc = "ai"
    /\ \E o \in ProviderOutcomes :
        chat' = [chat EXCEPT ![p].pc = "save_ai", ![p].outcome = o,
                             ![p].ai_response = GetAiResponse(o)]
    /\ UNCHANGED <<now, chat_history>>
    /\ ChatUnchanged

ChatSaveAssistant_AfterSuffix(p) ==
    /\ chat[p].pc = "save_ai"
    /\ chat_history' = SaveChatMessage(chat_history, chat[p].session_id,
          "assistant",
          IF IsQuoteRequest(chat[p].message)
          THEN chat[p].ai_response \o QuoteSuffix ELSE chat[p].ai_response, now)
    /\ chat' = [chat EXCEPT ![p].pc = "reply",
                  ![p].writes = Append(@, Len(chat_history) + 1)]
    /\ UNCHANGED now
    /\ ChatUnchanged

\* save_chat_message(session_id, "assistant", ai_response)
ChatSaveAssistant(p) ==
    /\ chat[p].pc = "save_ai"
    /\ chat_history' = SaveChatMessage(chat_history, chat[p].session_id,
                                       "assistant", chat[p].ai_response, now)
    /\ chat' = [chat EXCEPT ![p].pc = "reply",
                  ![p].writes = Append(@, Len(chat_history) + 1)]
    /\ UNCHANGED now
    /\ ChatUnchanged

\* the suffix for a quote request
ChatReplyText(message, ai_response) ==
    IF IsQuoteRequest(message) THEN ai_response \o QuoteSuffix ELSE ai_response

\* the keyword check and the JSONResponse
ChatReply(p) ==
    /\ chat[p].pc = "reply"
    /\ chat' = [chat EXCEPT ![p].pc = "done", ![p].status = 200,
                  ![p].response = ChatReplyText(chat[p].message, chat[p].ai_response)]
    /\ UNCHANGED <<now, chat_history>>
    /\ ChatUnchanged

\* the response has been sent; the worker takes the next request
ChatFinish(p) ==
    /\ chat[p].pc = "done"
    /\ chat' = [chat EXCEPT ![p] = IdleChat]
    /\ UNCHANGED <<now, chat_history>>
    /\ ChatUnchanged

-----------------------------------------------------------------------------
(* Direct use of the store functions save_chat_message and get_chat_history *)

Roles == {"user", "assistant"}
HistMessages == {"m1", "m2"}

HistUnchanged == UNCHANGED <<now, leads, lead_seq, admin_logs, env, chat, webhook, resp>>

\* save_chat_message(session_id, role, message)
HistSave(s, role, m) ==
    /\ Len(chat_history) < MaxHistRows
    /\ chat_history' = SaveChatMessage(chat_history, s, role, m, now)
    /\ UNCHANGED query
    /\ HistUnchanged

\* get_chat_history(session_id, limit); seen is the number of rows the table
\* held when the call was made
HistQuery(s, n) ==
    /\ \E h \in GetChatHistory(chat_history, s, n) :
        query' = [session_id |-> s, limit |-> n, result |-> h,
                  seen |-> Len(chat_history)]
    /\ UNCHANGED chat_history
    /\ HistUnchanged

-----------------------------------------------------------------------------
(* Store: leads and admin_logs *)

SaveLead_InsertOnly(rows, seq, data, ts) ==
    rows \cup {[id |-> seq + 1, session_id |-> data.session_id, timestamp |-> ts,
                name |-> data.name, email |-> data.email, phone |-> data.phone,
                location |-> data.location, home_value |-> data.home_value,
                interest_level |-> data.interest_level, source |-> "web",
                conversation_summary |-> data.conversation_summary,
                affiliate_clicked |-> 0, quote_requested |-> 0]}

\* INSERT OR REPLACE INTO leads: the row that holds the same email (UNIQUE)
\* is deleted, then the new row is inserted with the next AUTOINCREMENT id;
\* timestamp, source and the two flags take their defaults
SaveLead(rows, seq, data, ts) ==
    {r \in rows : r.email # data.email} \cup
    {[id |-> seq + 1, session_id |-> data.session_id, timestamp |-> ts,
      name |-> data.name, email |-> data.email, phone |-> data.phone,
      location |-> data.location, home_value |-> data.home_value,
      interest_level |-> data.interest_level, source |-> "web",
      conversation_summary |-> data.conversation_summary,
      affiliate_clicked |-> 0, quote_requested |-> 0]}

\* SELECT * FROM leads ORDER BY timestamp DESC
GetAllLeads(rows) == OrderByTimestampDesc(rows, Cardinality(rows))

LogAdminAction_Dropped(logs, admin_user, action, details, ts) ==
    logs

\* INSERT INTO admin_logs (admin_user, action, details)
LogAdminAction(logs, admin_user, action, details, ts) ==
    Append(logs, [id |-> Len(logs) + 1, timestamp |-> ts, admin_user |-> admin_user,
                  action |-> action, details |-> details])

-----------------------------------------------------------------------------
(* POST /api/lead *)

LeadForms ==
    {[name |-> "A", email |-> "e@x.com", phone |-> "555-0100", location |-> "Austin",
      home_value |-> "300000", session_id |-> "s1"],
     [name |-> "B", email |-> "e@x.com", phone |-> "", location |-> "",
      home_value |-> "", session_id |-> "s2"],
     [name |-> "C", email |-> "f@x.com", phone |-> "", location |-> "Boston",
      home_value |-> "", session_id |-> "s1"]}

\* lead_data of save_lead_api
LeadData(form) ==
    [session_id |-> form.session_id, name |-> form.name, email |-> form.email,
     phone |-> form.phone, location |-> form.location,
     home_value |-> form.home_value, interest_level |-> "high",
     conversation_summary |-> "Form submission"]

AffiliateLink(email) ==
    "https://www.thezebra.com/?agent=INSURANCEBOT&email=" \o email \o "&source=chatbot"

AdminUnchanged == UNCHANGED <<now, chat_history, env, chat, query, webhook>>

SaveLeadApi(form) ==
    /\ lead_seq < MaxLeads
    /\ leads' = SaveLead(leads, lead_seq, LeadData(form), now)
    /\ lead_seq' = lead_seq + 1
    /\ resp' = [op |-> "lead", status |-> 200, form |-> form,
                replaced |-> {r \in leads : r.email = form.email},
                body |-> [success |-> TRUE,
                          message |-> "Thank you! We'll contact you shortly.",
                          affiliate_link |-> AffiliateLink(form.email)]]
    /\ UNCHANGED admin_logs
    /\ AdminUnchanged

-----------------------------------------------------------------------------
(* Authentication *)

\* hashlib.sha256(password.encode()).hexdigest(): a digest that differs from
\* the password and is distinct for distinct passwords
Sha256(password) == "sha256:" \o password

NoCredentials == [username |-> None, password |-> None]
Credentials ==
    {NoCredentials,
     [username |-> "admin", password |-> "admin123"],
     [username |-> "admin", password |-> "s3cret"],
     [username |-> "admin", password |-> "guess"],
     [username |-> "root", password |-> "admin123"]}

\* a value Python treats as true in `if ADMIN_PASSWORD_HASH`
Truthy(v) == v # None /\ v # ""

VerifyAdmin_NoDevPasswordCheck(credentials) ==
    IF credentials = NoCredentials
    THEN [ok |-> FALSE, status |-> 401, detail |-> "Not authenticated"]
    ELSE IF credentials.username # env.ADMIN_USERNAME
    THEN [ok |-> FALSE, status |-> 401, detail |-> "Invalid username"]
    ELSE IF Truthy(env.ADMIN_PASSWORD_HASH)
            /\ Sha256(credentials.password) # env.ADMIN_PASSWORD_HASH
    THEN [ok |-> FALSE, status |-> 401, detail |-> "Invalid password"]
    ELSE [ok |-> TRUE, status |-> 200, detail |-> credentials.username]

\* Depends(security) followed by verify_admin
VerifyAdmin(credentials) ==
    IF credentials = NoCredentials
    THEN [ok |-> FALSE, status |-> 401, detail |-> "Not authenticated"]
    ELSE IF credentials.username # env.ADMIN_USERNAME
    THEN [ok |-> FALSE, status |-> 401, detail |-> "Invalid username"]
    ELSE IF Truthy(env.ADMIN_PASSWORD_HASH)
            /\ Sha256(credentials.password) # env.ADMIN_PASSWORD_HASH
    THEN [ok |-> FALSE, status |-> 401, detail |-> "Invalid password"]
    ELSE IF ~Truthy(env.ADMIN_PASSWORD_HASH) /\ credentials.password # "admin123"
    THEN [ok |-> FALSE, status |-> 401, detail |-> "Invalid password"]
    ELSE [ok |-> TRUE, status |-> 200, detail |-> credentials.username]

Rejected(op, credentials) ==
    [op |-> op, status |-> VerifyAdmin(credentials).status,
     credentials |-> credentials,
     body |-> [detail |-> VerifyAdmin(credentials).detail]]

-----------------------------------------------------------------------------
(* Admin routes *)

\* GET /admin: the template context (the count of today's leads is derived
\* from leads and is not kept)
AdminDashboard(credentials) ==
    /\ IF VerifyAdmin(credentials).ok
       THEN \E all \in GetAllLeads(leads) :
              resp' = [op |-> "admin_dashboard", status |-> 200,
                       credentials |-> credentials,
                       body |-> [leads |-> all, lead_count |-> Len(all),
                                 username |-> VerifyAdmin(credentials).detail]]
       ELSE resp' = Rejected("admin_dashboard", credentials)
    /\ UNCHANGED <<leads, lead_seq, admin_logs>>
    /\ AdminUnchanged

\* GET /api/admin/leads
GetLeadsApi(credentials) ==
    /\ IF VerifyAdmin(credentials).ok
       THEN \E all \in GetAllLeads(leads) :
              resp' = [op |-> "get_leads_api", status |-> 200,
                       credentials |-> credentials,
                       body |-> [leads |-> all]]
       ELSE resp' = Rejected("get_leads_api", credentials)
    /\ UNCHANGED <<leads, lead_seq, admin_logs>>
    /\ AdminUnchanged

DeleteDetails(lead_id) == "Deleted lead ID: " \o ToString(lead_id)

\* DELETE /api/admin/lead/{lead_id}
DeleteLead(credentials, lead_id) ==
    /\ Len(admin_logs) < MaxLogs
    /\ IF VerifyAdmin(credentials).ok
       THEN /\ leads' = {r \in leads : r.id # lead_id}
            /\ admin_logs' = LogAdminAction(admin_logs, VerifyAdmin(credentials).detail,
                                            "delete_lead", DeleteDetails(lead_id), now)
            /\ resp' = [op |-> "delete_lead", status |-> 200,
                        credentials |-> credentials,
                        lead_id |-> lead_id, body |-> [success |-> TRUE]]
       ELSE /\ resp' = Rejected("delete_lead", credentials)
            /\ UNCHANGED <<leads, admin_logs>>
    /\ UNCHANGED lead_seq
    /\ AdminUnchanged

-----------------------------------------------------------------------------
(* GET /webhook *)

Digits == "0123456789"
IsDigit(c) == \E i \in 1..10 : CharAt(Digits, i) = c
DigitValue(c) == (CHOOSE i \in 1..10 : CharAt(Digits, i) = c) - 1
IsSpace(c) == c \in {" ", "\t", "\n", "\r"}

RECURSIVE LStrip(_)
LStrip(s) ==
    IF Len(s) > 0 /\ IsSpace(CharAt(s, 1)) THEN LStrip(SubSeq(s, 2, Len(s))) ELSE s

RECURSIVE RStrip(_)
RStrip(s) ==
    IF Len(s) > 0 /\ IsSpace(CharAt(s, Len(s)))
    THEN RStrip(SubSeq(s, 1, Len(s) - 1)) ELSE s

\* digits with single underscores between them: the value, or -1
RECURSIVE DigitsValue(_, _)
DigitsValue(s, acc) ==
    IF Len(s) = 0 THEN acc
    ELSE IF IsDigit(CharAt(s, 1))
         THEN DigitsValue(SubSeq(s, 2, Len(s)), 10 * acc + DigitValue(CharAt(s, 1)))
    ELSE IF CharAt(s, 1) = "_" /\ Len(s) > 1 /\ IsDigit(CharAt(s, 2))
         THEN DigitsValue(SubSeq(s, 2, Len(s)), acc)
    ELSE -1

\* int(text): surrounding whitespace is dropped, one sign is allowed, the
\* rest must be decimal digits; anything else raises ValueError
PyInt(text) ==
    LET t == RStrip(LStrip(text))
        signed == Len(t) > 0 /\ CharAt(t, 1) \in {"+", "-"}
        body == IF signed THEN SubSeq(t, 2, Len(t)) ELSE t
        magnitude == IF Len(body) > 0 /\ IsDigit(CharAt(body, 1))
                     THEN DigitsValue(body, 0) ELSE -1
    IN  IF magnitude < 0 THEN [ok |-> FALSE, value |-> 0]
        ELSE IF signed /\ CharAt(t, 1) = "-" THEN [ok |-> TRUE, value |-> 0 - magnitude]
        ELSE [ok |-> TRUE, value |-> magnitude]

\* verify_webhook: the integer is sent as its JSON text; a ValueError of
\* int() is not handled and becomes the server's 500 response
VerifyWebhookResponse(hub_mode, hub_challenge, hub_verify_token) ==
    IF hub_mode = "subscribe" /\ hub_verify_token = env.FB_VERIFY_TOKEN
    THEN IF PyInt(hub_challenge).ok
         THEN [status |-> 200, body |-> ToString(PyInt(hub_challenge).value)]
         ELSE [status |-> 500, body |-> "Internal Server Error"]
    ELSE [status |-> 403, body |-> "{\"detail\":\"Verification failed\"}"]

HubModes == {"subscribe", "unsubscribe", "SUBSCRIBE", ""}
HubChallenges ==
    {"1158201444", "7", "0", "007", "+5", "-3", " 12", "1_0", "abc", "12a", "1.5"}
HubTokens == {"insurance_bot_2025", "page_secret", "guess"}

VerifyWebhook(hub_mode, hub_challenge, hub_verify_token) ==
    /\ resp' = [op |-> "verify_webhook", hub_mode |-> hub_mode,
                hub_challenge |-> hub_challenge,
                hub_verify_token |-> hub_verify_token,
                status |-> VerifyWebhookResponse(hub_mode, hub_challenge,
                                                 hub_verify_token).status,
                body |-> VerifyWebhookResponse(hub_mode, hub_challenge,
                                               hub_verify_token).body]
    /\ UNCHANGED <<now, chat_history, leads, lead_seq, admin_logs, env, chat,
                   query, webhook>>

-----------------------------------------------------------------------------
(* POST /webhook *)

Senders == {"1001", "1002"}

\* one element of entry[].messaging[]: a text message, an event without
\* sender or without text, or an element the .get() chain fails on
MessagingEvents ==
    {[sender |-> u, text |-> "hello", broken |-> FALSE] : u \in Senders} \cup
    {[sender |-> "1001", text |-> None, broken |-> FALSE],
     [sender |-> None, text |-> "hello", broken |-> FALSE],
     [sender |-> None, text |-> None, broken |-> TRUE]}

RECURSIVE SeqsUpTo(_, _)
SeqsUpTo(S, n) ==
    IF n = 0 THEN {<<>>}
    ELSE SeqsUpTo(S, n - 1) \cup
         {Append(q, x) : q \in {r \in SeqsUpTo(S, n - 1) : Len(r) = n - 1}, x \in S}

\* a request body: not JSON, JSON that is no object, or the messaging
\* events of its entries in order
Payloads ==
    {[kind |-> k, events |-> <<>>] : k \in {"malformed", "not_object"}} \cup
    {[kind |-> "object", events |-> ev] : ev \in SeqsUpTo(MessagingEvents, MaxEvents)}

IdleWebhook ==
    [pc |-> "idle", events |-> <<>>, i |-> 0, history |-> <<>>,
     ai_response |-> None, writes |-> <<>>, turns |-> <<>>, response |-> None]

WebhookOk == [status |-> 200, body |-> [status |-> "ok"]]

WebhookOnException_Propagates == [status |-> 500, body |-> "Internal Server Error"]

\* except Exception: return {"status": "error"}
WebhookOnException == [status |-> 200, body |-> [status |-> "error"]]

FbSession(sender_id) == "fb_" \o sender_id

\* what send_facebook_message can do: nothing without a page token, else one
\* POST that is answered 200, answered otherwise, or raises; it returns
\* True in the first of these cases only and never raises
SendOutcomes ==
    IF ~Truthy(env.FB_PAGE_ACCESS_TOKEN) THEN {"disabled"}
    ELSE {"status_200", "status_other", "raised"}

SendFacebookMessage(outcome) == outcome = "status_200"

WebhookUnchanged == UNCHANGED <<now, leads, lead_seq, admin_logs, env, chat, query, resp>>

\* data = await request.json(); data.get("entry", [])
WebhookReceive(payload) ==
    /\ webhook.pc = "idle"
    /\ Len(chat_history) + 2 * Len(payload.events) <= MaxRows
    /\ webhook' = IF payload.kind # "object"
                  THEN [IdleWebhook EXCEPT !.pc = "done", !.response = WebhookOnException]
                  ELSE [IdleWebhook EXCEPT !.pc = "event", !.events = payload.events,
                                           !.i = 1]
    /\ UNCHANGED chat_history
    /\ WebhookUnchanged

\* the loop head and the body up to save_chat_message(session_id, "user", ...)
WebhookEvent ==
    /\ webhook.pc = "event"
    /\ IF webhook.i > Len(webhook.events)
       THEN /\ webhook' = [webhook EXCEPT !.pc = "done", !.response = WebhookOk]
            /\ UNCHANGED chat_history
       ELSE IF webhook.events[webhook.i].broken
       THEN /\ webhook' = [webhook EXCEPT !.pc = "done", !.response = WebhookOnException]
            /\ UNCHANGED chat_history
       ELSE IF Truthy(webhook.events[webhook.i].sender)
               /\ Truthy(webhook.events[webhook.i].text)
       THEN /\ chat_history' = SaveChatMessage(chat_history,
                                   FbSession(webhook.events[webhook.i].sender),
                                   "user", webhook.events[webhook.i].text, now)
            /\ webhook' = [webhook EXCEPT !.pc = "history",
                              !.writes = Append(@, Len(chat_history) + 1)]
       ELSE /\ webhook' = [webhook EXCEPT !.i = @ + 1]
            /\ UNCHANGED chat_history
    /\ WebhookUnchanged

\* history = get_chat_history(session_id, limit=6)
WebhookGetHistory ==
    /\ webhook.pc = "history"
    /\ \E h \in GetChatHistory(chat_history,
                    FbSession(webhook.events[webhook.i].sender), HistoryLimit) :
        webhook' = [webhook EXCEPT !.pc = "ai", !.history = h]
    /\ UNCHANGED chat_history
    /\ WebhookUnchanged

\* ai_response = await get_ai_response(history)
WebhookAiResponse ==
    /\ webhook.pc = "ai"
    /\ \E o \in ProviderOutcomes :
        webhook' = [webhook EXCEPT !.pc = "save_ai", !.ai_response = GetAiResponse(o)]
    /\ UNCHANGED chat_history
    /\ WebhookUnchanged

\* save_chat_message(session_id, "assistant", ai_response)
WebhookSaveAssistant ==
    /\ webhook.pc = "save_ai"
    /\ chat_history' = SaveChatMessage(chat_history,
                           FbSession(webhook.events[webhook.i].sender),
                           "assistant", webhook.ai_response, now)
    /\ webhook' = [webhook EXCEPT !.pc = "send",
                      !.writes = Append(@, Len(chat_history) + 1)]
    /\ WebhookUnchanged

\* await send_facebook_message(sender_id, ai_response); the result is not
\* looked at
WebhookSend ==
    /\ webhook.pc = "send"
    /\ \E o \in SendOutcomes :
        webhook' = [webhook EXCEPT !.pc = "event", !.i = @ + 1,
            !.history = <<>>, !.ai_response = None,
            !.turns = Append(@, [sender |-> webhook.events[webhook.i].sender,
                                 text |-> webhook.events[webhook.i].text,
                                 ai_response |-> webhook.ai_response,
                                 send |-> o, delivered |-> SendFacebookMessage(o)])]
    /\ UNCHANGED chat_history
    /\ WebhookUnchanged

\* the acknowledgment has been sent
WebhookFinish ==
    /\ webhook.pc = "done"
    /\ webhook' = IdleWebhook
    /\ UNCHANGED chat_history
    /\ WebhookUnchanged

-----------------------------------------------------------------------------
(* GET /track/{affiliate_id} *)

\* the if/elif chain of track_affiliate_click
AffiliateBase(affiliate_id) ==
    IF affiliate_id = "thezebra" THEN "https://www.thezebra.com/?agent=INSURANCEBOT"
    ELSE IF affiliate_id = "policygenius"
         THEN "https://www.policygenius.com/?ref=INSURANCEBOT"
    ELSE IF affiliate_id = "lemonade"
         THEN "https://www.lemonade.com/landing/ref-INSURANCEBOT"
    ELSE "https://www.thezebra.com"

\* redirect_url with the tracking parameters added; None and "" are false
\* in `if email:` and `if source:`
RedirectUrl(affiliate_id, email, source) ==
    AffiliateBase(affiliate_id)
        \o (IF Truthy(email) THEN "&email=" \o email ELSE "")
        \o (IF Truthy(source) THEN "&source=" \o source ELSE "")

AffiliateIds == {"thezebra", "policygenius", "lemonade", "unknown", "TheZebra"}
TrackEmails == {None, "", "x@y.com", "jo@example.org", "a.b@c.io"}
TrackSources == {None, "", "web", "chatbot", "facebook"}

TrackAffiliateClick(affiliate_id, email, source) ==
    /\ resp' = [op |-> "track_affiliate_click", affiliate_id |-> affiliate_id,
                email |-> email, source |-> source, status |-> 302,
                location |-> RedirectUrl(affiliate_id, email, source)]
    /\ UNCHANGED <<now, chat_history, leads, lead_seq, admin_logs, env, chat,
                   query, webhook>>

-----------------------------------------------------------------------------
(* Initial state: init_database() on an empty file, no request in flight *)

DefaultEnv ==
    [FB_PAGE_ACCESS_TOKEN |-> None, FB_VERIFY_TOKEN |-> "insurance_bot_2025",
     ADMIN_USERNAME |-> "admin", ADMIN_PASSWORD_HASH |-> None]

InitWith(environment) ==
    /\ now = 0
    /\ chat_history = <<>>
    /\ leads = {}
    /\ lead_seq = 0
    /\ admin_logs = <<>>
    /\ env = environment
    /\ chat = [p \in ProcIds |-> IdleChat]
    /\ query = [session_id |-> None, limit |-> 0, result |-> <<>>, seen |-> 0]
    /\ webhook = IdleWebhook
    /\ resp = [op |-> None]

Init == InitWith(DefaultEnv)

\* one worker: the invocations run one after the other
Next ==
    \/ Tick
    \/ \E s \in Sessions, m \in Messages : ChatSaveUser(1, s, m)
    \/ ChatGetHistory(1)
    \/ ChatAiResponse(1)
    \/ ChatSaveAssistant(1)
    \/ ChatReply(1)
    \/ ChatFinish(1)

Spec == Init /\ [][Next]_vars

\* two workers on the same database file: their store calls interleave
NextConcurrent ==
    \/ Tick
    \/ \E p \in ProcIds, s \in Sessions, m \in ConcurrentMessages : ChatSaveUser(p, s, m)
    \/ \E p \in ProcIds : ChatGetHistory(p)
    \/ \E p \in ProcIds : ChatAiResponse(p)
    \/ \E p \in ProcIds : ChatSaveAssistant(p)
    \/ \E p \in ProcIds : ChatReply(p)
    \/ \E p \in ProcIds : ChatFinish(p)

SpecConcurrent == Init /\ [][NextConcurrent]_vars

\* the store functions called directly, with any limit
NextHistory ==
    \/ Tick
    \/ \E s \in Sessions, role \in Roles, m \in HistMessages : HistSave(s, role, m)
    \/ \E s \in Sessions, n \in 1..MaxHistRows : HistQuery(s, n)

SpecHistory == Init /\ [][NextHistory]_vars

\* the lead form and the admin endpoints, under each setting of the admin
\* password hash
PasswordHashes == {None, "", Sha256("s3cret")}

InitAdmin ==
    \E h \in PasswordHashes : InitWith([DefaultEnv EXCEPT !.ADMIN_PASSWORD_HASH = h])

NextAdmin ==
    \/ Tick
    \/ \E form \in LeadForms : SaveLeadApi(form)
    \/ \E c \in Credentials : AdminDashboard(c)
    \/ \E c \in Credentials : GetLeadsApi(c)
    \/ \E c \in Credentials, lead_id \in 1..(MaxLeads + 1) : DeleteLead(c, lead_id)

SpecAdmin == InitAdmin /\ [][NextAdmin]_vars

\* the verification handshake, with the default and with a configured
\* verify token
InitVerify ==
    \E t \in {"insurance_bot_2025", "page_secret"} :
        InitWith([DefaultEnv EXCEPT !.FB_VERIFY_TOKEN = t])

NextVerify ==
    \E m \in HubModes, c \in HubChallenges, t \in HubTokens : VerifyWebhook(m, c, t)

SpecVerify == InitVerify /\ [][NextVerify]_vars

\* the affiliate redirect
NextTrack ==
    \E a \in AffiliateIds, e \in TrackEmails, src \in TrackSources :
        TrackAffiliateClick(a, e, src)

SpecTrack == Init /\ [][NextTrack]_vars

\* the Messenger webhook, with and without a page access token
InitWebhook ==
    \E t \in {None, "page-token"} :
        InitWith([DefaultEnv EXCEPT !.FB_PAGE_ACCESS_TOKEN = t])

NextWebhook ==
    \/ Tick
    \/ \E payload \in Payloads : WebhookReceive(payload)
    \/ WebhookEvent
    \/ WebhookGetHistory
    \/ WebhookAiResponse
    \/ WebhookSaveAssistant
    \/ WebhookSend
    \/ WebhookFinish

SpecWebhook == InitWebhook /\ [][NextWebhook]_vars

-----------------------------------------------------------------------------
(* Properties *)

\* the rows of a session among the first n rows of the table, oldest first,
\* as get_chat_history presents a row
RECURSIVE SessionMessages(_, _, _)
SessionMessages(hist, session_id, n) ==
    IF n = 0 THEN <<>>
    ELSE IF hist[n].session_id = session_id
         THEN Append(SessionMessages(hist, session_id, n - 1), RowDict(hist[n]))
         ELSE SessionMessages(hist, session_id, n - 1)

\* C1: get_chat_history(S, N) with N at most the number of messages of S
\* returns exactly the last N messages of S, oldest first, whatever the
\* timestamps and whatever was appended to other sessions.
C1_LastNInOrder ==
    (query.session_id # None
        /\ query.limit <= Len(SessionMessages(chat_history, query.session_id, query.seen)))
    => query.result =
         LastN(SessionMessages(chat_history, query.session_id, query.seen), query.limit)


\* some keyword occurs in the message at some offset, letters compared
\* without regard to case
HasPricingKeyword(message) ==
    \E kw \in {"quote", "price", "how much", "cost", "rate"} :
        \E off \in 0..(Len(message) - Len(kw)) :
            \A j \in 1..Len(kw) :
                LowerChar(CharAt(message, off + j)) = CharAt(kw, j)

Finished(p) == chat[p].pc = "done"

\* the two rows a finished invocation wrote: the user turn, then the
\* assistant turn, both in its session
TwoAppends(p) ==
    /\ Len(chat[p].writes) = 2
    /\ chat[p].writes[1] < chat[p].writes[2]
    /\ chat_history[chat[p].writes[1]].session_id = chat[p].session_id
    /\ chat_history[chat[p].writes[1]].role = "user"
    /\ chat_history[chat[p].writes[1]].message = chat[p].message
    /\ chat_history[chat[p].writes[2]].session_id = chat[p].session_id
    /\ chat_history[chat[p].writes[2]].role = "assistant"

\* C3 as stated: every chat invocation ends normally with exactly two
\* appends to its session, user turn then assistant turn, and when the
\* provider failed the apology is both the stored assistant turn and the
\* text returned.
C3_ApologyReturnedAsIs ==
    \A p \in ProcIds : Finished(p) =>
        /\ chat[p].status = 200
        /\ TwoAppends(p)
        /\ ~chat[p].outcome.ok =>
            /\ chat_history[chat[p].writes[2]].message = Apology
            /\ chat[p].response = Apology

\* C3 amended: every chat invocation ends normally with exactly two
\* appends to its session, user turn then assistant turn; when the provider
\* failed the stored assistant turn is the apology, and the text returned is
\* the apology, followed by the call-to-action suffix when the user message
\* has a pricing keyword; when the provider replied, its reply is stored.
C3_TwoAppendsAndFallback ==
    \A p \in ProcIds : Finished(p) =>
        /\ chat[p].status = 200
        /\ TwoAppends(p)
        /\ ~chat[p].outcome.ok =>
            /\ chat_history[chat[p].writes[2]].message = Apology
            /\ chat[p].response =
                 IF HasPricingKeyword(chat[p].message)
                 THEN Apology \o QuoteSuffix ELSE Apology
        /\ chat[p].outcome.ok =>
            chat_history[chat[p].writes[2]].message = chat[p].outcome.content

C3_Witness ==
    \E p \in ProcIds :
        /\ Finished(p)
        /\ ~chat[p].outcome.ok
        /\ chat[p].response = Apology \o QuoteSuffix
        /\ chat_history[chat[p].writes[2]].message = Apology

\* C7: the reply of a finished chat invocation is the assistant text
\* followed by the call-to-action suffix when the user message contains one
\* of the five keywords in any letter case, and the assistant text alone
\* when it contains none.
C7_SuffixIffKeyword ==
    \A p \in ProcIds : Finished(p) =>
        /\ HasPricingKeyword(chat[p].message) =>
              chat[p].response = chat[p].ai_response \o QuoteSuffix
        /\ ~HasPricingKeyword(chat[p].message) =>
              chat[p].response = chat[p].ai_response

C7_Witness ==
    /\ \E p \in ProcIds :
        /\ Finished(p)
        /\ chat[p].message = "how much does it cost"
        /\ chat[p].response = chat[p].ai_response \o QuoteSuffix
    /\ \E i \in 1..Len(chat_history) : chat_history[i].message = "hello"

\* the provider has been sent the request of invocation p
RequestSent(p) == chat[p].pc \in {"save_ai", "reply", "done"}

\* the rows of chat_history, in rowid order, that the messages of a request
\* can be matched to one by one
Embeddings(p) ==
    {f \in [1..Len(chat[p].history) -> 1..Len(chat_history)] :
        /\ \A i, j \in 1..Len(chat[p].history) : i < j => f[i] < f[j]
        /\ \A i \in 1..Len(chat[p].history) :
            /\ chat_history[f[i]].session_id = chat[p].session_id
            /\ RowDict(chat_history[f[i]]) = chat[p].history[i]}

\* C10: the request sent to the provider is the system prompt followed by
\* at most 6 messages of the invocation's session, in the order they were
\* appended, the invocation's own user message among them.
C10_RequestIsRecentHistory ==
    \A p \in ProcIds : RequestSent(p) =>
        /\ Head(FormatMessages(chat[p].history)) =
              [role |-> "system", content |-> SystemPrompt]
        /\ Len(FormatMessages(chat[p].history)) <= 1 + 6
        /\ \A i \in 1..Len(chat[p].history) :
              FormatMessages(chat[p].history)[i + 1] =
                [role |-> chat[p].history[i].role,
                 content |-> chat[p].history[i].message]
        /\ \E f \in Embeddings(p) :
              \E i \in 1..Len(chat[p].history) : f[i] = chat[p].writes[1]

\* C2: no two lead records share an email, and after the lead form is saved
\* the store holds exactly one record for the submitted email, with a fresh
\* id and every field taken from that submission or from the column
\* defaults, whatever record held the email before.
C2_UniqueEmailUpsert ==
    /\ \A r1, r2 \in leads : r1.email = r2.email => r1 = r2
    /\ resp.op = "lead" =>
        /\ Cardinality({r \in leads : r.email = resp.form.email}) = 1
        /\ \A r \in leads : r.email = resp.form.email =>
            /\ r.id = lead_seq
            /\ \A old \in resp.replaced : old.id < r.id
            /\ r.name = resp.form.name
            /\ r.phone = resp.form.phone
            /\ r.location = resp.form.location
            /\ r.home_value = resp.form.home_value
            /\ r.session_id = resp.form.session_id
            /\ r.interest_level = "high"
            /\ r.source = "web"
            /\ r.conversation_summary = "Form submission"
            /\ r.affiliate_clicked = 0
            /\ r.quote_requested = 0

C2_Witness ==
    /\ resp.op = "lead"
    /\ resp.form.name = "B"
    /\ \E old \in resp.replaced : old.name = "A" /\ old.phone = "555-0100"
    /\ \E r \in leads : r.email = resp.form.email /\ r.name = "B" /\ r.phone = ""

\* the credential pairs the admin endpoints are meant to accept
ValidCredentials(c) ==
    /\ c # NoCredentials
    /\ c.username = env.ADMIN_USERNAME
    /\ IF env.ADMIN_PASSWORD_HASH \in {None, ""}
       THEN c.password = "admin123"
       ELSE Sha256(c.password) = env.ADMIN_PASSWORD_HASH

\* a step of the delete-lead handler
DeleteLeadStep == now' = now /\ resp'.op = "delete_lead"

\* C5: every authorized delete-lead call returns {success: true} and
\* appends exactly one admin log entry, with action delete_lead and a detail
\* naming the id, whether or not the id exists; when it does not exist the
\* leads are left as they were.
C5_DeleteAlwaysLogs ==
    [][(DeleteLeadStep /\ ValidCredentials(resp'.credentials)) =>
        /\ resp'.status = 200
        /\ resp'.body = [success |-> TRUE]
        /\ Len(admin_logs') = Len(admin_logs) + 1
        /\ SubSeq(admin_logs', 1, Len(admin_logs)) = admin_logs
        /\ admin_logs'[Len(admin_logs')].admin_user = resp'.credentials.username
        /\ admin_logs'[Len(admin_logs')].action = "delete_lead"
        /\ admin_logs'[Len(admin_logs')].details =
              "Deleted lead ID: " \o ToString(resp'.lead_id)
        /\ (\A r \in leads : r.id # resp'.lead_id) => leads' = leads
        /\ leads' = {r \in leads : r.id # resp'.lead_id}]_vars

C5_Witness ==
    /\ resp.op = "delete_lead"
    /\ resp.status = 200
    /\ resp.lead_id > lead_seq
    /\ leads # {}
    /\ Len(admin_logs) = 1
    /\ admin_logs[1].details = "Deleted lead ID: " \o ToString(resp.lead_id)

AdminOps == {"admin_dashboard", "get_leads_api", "delete_lead"}

\* C6: a request to any of the three admin operations whose credentials
\* are not valid is answered 401 with nothing but the reason in the body,
\* and leaves the leads and the admin log as they were.
C6_InvalidCredentialsRejected ==
    [][(now' = now /\ resp'.op \in AdminOps /\ ~ValidCredentials(resp'.credentials)) =>
        /\ resp'.status = 401
        /\ DOMAIN resp'.body = {"detail"}
        /\ leads' = leads
        /\ admin_logs' = admin_logs]_vars

C6_Witness ==
    /\ resp.op = "delete_lead"
    /\ resp.status = 401
    /\ resp.credentials = [username |-> "admin", password |-> "guess"]
    /\ env.ADMIN_PASSWORD_HASH = None
    /\ leads # {}

HandshakeMatches ==
    resp.hub_mode = "subscribe" /\ resp.hub_verify_token = env.FB_VERIFY_TOKEN

\* C4 as stated: with mode "subscribe" and the configured token the
\* handshake answers with the supplied challenge, whatever the challenge;
\* with any other mode or token it answers 403 and not the challenge.
C4_ChallengeEchoed ==
    resp.op = "verify_webhook" =>
        IF HandshakeMatches
        THEN resp.status = 200 /\ resp.body = resp.hub_challenge
        ELSE resp.status = 403 /\ resp.body # resp.hub_challenge

\* the part of a URL after its first "?", "" when it has none
RECURSIVE QueryOf(_)
QueryOf(url) ==
    IF Len(url) = 0 THEN ""
    ELSE IF CharAt(url, 1) = "?" THEN SubSeq(url, 2, Len(url))
    ELSE QueryOf(SubSeq(url, 2, Len(url)))

\* the pieces of a text between the occurrences of a separator character
RECURSIVE SplitOn(_, _, _)
SplitOn(text, sep, piece) ==
    IF Len(text) = 0 THEN {piece}
    ELSE IF CharAt(text, 1) = sep
         THEN {piece} \cup SplitOn(SubSeq(text, 2, Len(text)), sep, "")
    ELSE SplitOn(SubSeq(text, 2, Len(text)), sep, piece \o CharAt(text, 1))

HasQueryParameter(url, key, value) ==
    (key \o "=" \o value) \in SplitOn(QueryOf(url), "&", "")

StartsWith(text, prefix) ==
    Len(text) >= Len(prefix) /\ SubSeq(text, 1, Len(prefix)) = prefix

PartnerBase ==
    [a \in AffiliateIds |->
        CASE a = "thezebra" -> "https://www.thezebra.com/?agent=INSURANCEBOT"
          [] a = "policygenius" -> "https://www.policygenius.com/?ref=INSURANCEBOT"
          [] a = "lemonade" -> "https://www.lemonade.com/landing/ref-INSURANCEBOT"
          [] OTHER -> "https://www.thezebra.com"]

\* C9: the redirect goes to the base URL of the affiliate id, the default
\* one for an unknown id, and every tracking parameter supplied with the
\* request is a query parameter of the redirect URL.
C9_TrackingParametersInQuery ==
    resp.op = "track_affiliate_click" =>
        /\ resp.status = 302
        /\ StartsWith(resp.location, PartnerBase[resp.affiliate_id])
        /\ (resp.email \notin {None, ""}) =>
              HasQueryParameter(resp.location, "email", resp.email)
        /\ (resp.source \notin {None, ""}) =>
              HasQueryParameter(resp.location, "source", resp.source)

\* a messaging event that carries a sender id and a text
IsTextMessage(e) ==
    ~e.broken /\ e.sender \notin {None, ""} /\ e.text \notin {None, ""}

\* the events the handler got through before it returned
EventsHandled ==
    IF webhook.i > Len(webhook.events) THEN Len(webhook.events) ELSE webhook.i - 1

\* C8: the webhook handler ends with HTTP 200 and {status: ok} or
\* {status: error} for every payload and every outcome of the provider and
\* of the outbound send; every text message it got through, whatever became
\* of the send, has its user turn and then its assistant turn stored under
\* the session "fb_" + sender id.
C8_WebhookAlwaysAcknowledges ==
    webhook.pc = "done" =>
        /\ webhook.response.status = 200
        /\ webhook.response.body \in {[status |-> "ok"], [status |-> "error"]}
        /\ webhook.response.body.status = "ok" =>
              webhook.i = Len(webhook.events) + 1
        /\ Len(webhook.turns) =
              Cardinality({j \in 1..EventsHandled : IsTextMessage(webhook.events[j])})
        /\ Len(webhook.writes) = 2 * Len(webhook.turns)
        /\ \A k \in 1..Len(webhook.turns) :
            /\ webhook.writes[2 * k - 1] < webhook.writes[2 * k]
            /\ chat_history[webhook.writes[2 * k - 1]].session_id =
                  "fb_" \o webhook.turns[k].sender
            /\ chat_history[webhook.writes[2 * k - 1]].role = "user"
            /\ chat_history[webhook.writes[2 * k - 1]].message = webhook.turns[k].text
            /\ chat_history[webhook.writes[2 * k]].session_id =
                  "fb_" \o webhook.turns[k].sender
            /\ chat_history[webhook.writes[2 * k]].role = "assistant"
            /\ chat_history[webhook.writes[2 * k]].message = webhook.turns[k].ai_response

C8_Witness ==
    /\ webhook.pc = "done"
    /\ webhook.response.body = [status |-> "error"]
    /\ Len(webhook.turns) = 1
    /\ webhook.turns[1].send = "raised"
    /\ webhook.turns[1].ai_response = Apology
    /\ chat_history[webhook.writes[2]].message = Apology

\* the assistant turn of invocation p has been stored
AssistantStored(p) == chat[p].pc \in {"reply", "done"}

EndsWith(text, suffix) ==
    Len(text) >= Len(suffix)
    /\ SubSeq(text, Len(text) - Len(suffix) + 1, Len(text)) = suffix

\* C11: the text stored as the assistant turn is the provider's reply, or
\* the apology when the provider failed, without the call-to-action suffix,
\* and it is stored before the reply is made; the text returned is the
\* stored text when the user message has no pricing keyword and the stored
\* text followed by the suffix when it has one; no stored row and no message
\* of a history read for the provider ends with the suffix.
C11_SuffixNotPersisted ==
    /\ \A p \in ProcIds : AssistantStored(p) =>
        /\ chat_history[chat[p].writes[2]].role = "assistant"
        /\ chat_history[chat[p].writes[2]].message =
              IF chat[p].outcome.ok THEN chat[p].outcome.content ELSE Apology
        /\ chat[p].pc = "reply" => chat[p].response = None
        /\ Finished(p) =>
              chat[p].response =
                IF HasPricingKeyword(chat[p].message)
                THEN chat_history[chat[p].writes[2]].message \o QuoteSuffix
                ELSE chat_history[chat[p].writes[2]].message
    /\ \A i \in 1..Len(chat_history) : ~EndsWith(chat_history[i].message, QuoteSuffix)
    /\ \A p \in ProcIds : \A i \in 1..Len(chat[p].history) :
          ~EndsWith(chat[p].history[i].message, QuoteSuffix)

\* a second quote request in a session whose first one was answered with
\* the suffix: the history read for it holds the first assistant turn
C11_Witness ==
    /\ Finished(1)
    /\ chat[1].writes = <<3, 4>>
    /\ chat[1].message = "My RATE?"
    /\ chat[1].response = "Sure." \o QuoteSuffix
    /\ chat_history[4].message = "Sure."
    /\ chat_history[1].session_id = chat[1].session_id
    /\ chat_history[1].message = "how much does it cost"
    /\ chat_history[2].session_id = chat[1].session_id
    /\ \E i \in 1..Len(chat[1].history) :
          chat[1].history[i] = RowDict(chat_history[2])

====
